---- MODULE Spec2Model ----
(***************************************************************************)
(* Model of measure_shards_size.py: Client.shards and the helpers it       *)
(* calls (_get_all_shards_size, _parse_du, _get_shard_size, _size).        *)
(*                                                                         *)
(* One run of the `shards` command is a sequential program.  Its position  *)
(* is pc:                                                                  *)
(*   "connect" -> "exec" -> "stdout" -> "query" -> "groups" <-> "shard"    *)
(*             -> "done"                                                   *)
(* with the abnormal endings "exited" (sys.exit(1)) and "crashed" (an      *)
(* exception nobody catches).                                              *)
(*                                                                         *)
(* Time stamps are points on an integer time line (datetime values are     *)
(* only ever compared).  A line of the remote command's output is a        *)
(* sequence of one-character strings, matched as the regular expression of *)
(* _parse_du matches it.                                                   *)
(***************************************************************************)
EXTENDS Integers, Sequences, FiniteSets, TLC

VARIABLES
    pc,                 \* position of the run
    exc,                \* the exception that ended the run, or NoExc
    influx_db,          \* self.influx_db: the database filter, NoDb when unset
    full,               \* args['--full']
    from_date,          \* datetime parsed from args['--from']
    to_date,            \* datetime parsed from args['--to']
    ssh,                \* the paramiko session: "none", "open", "failed" (no code closes it)
    n_connect,          \* number of ssh.connect calls
    n_exec,             \* number of ssh.exec_command calls
    stdout,             \* lines of the remote command's stdout not yet consumed
    shards_size_list,   \* self.shards_size_list: shard id -> bytes
    query,              \* the SHOW SHARDS query: "none", "ok", "failed"
    seen,               \* the groups the result set has yielded so far (name, qualifying bytes)
    group,              \* the group the inner loop goes through
    si,                 \* index of the next shard record of group
    database,           \* local variable database, Unbound before its first assignment
    shard_size,         \* local variable shard_size
    total_size,         \* local variable total_size
    out                 \* the lines printed on standard output

vars == <<pc, exc, influx_db, full, from_date, to_date, ssh, n_connect, n_exec,
          stdout, shards_size_list, query, seen, group, si, database,
          shard_size, total_size, out>>

----------------------------------------------------------------------------
(* Bounds of the model *)

MaxLines == 2       \* lines of remote output per run
MaxGroups == 2      \* groups yielded by the metadata query per run
MaxGroupLen == 2    \* shard records per group

(* Values the inputs are drawn from *)

NoDb == ""                      \* --influx_db not given (None): falsy
Unbound == "<unbound>"          \* a local variable that was never assigned
NoName == "<none>"              \* the name of a group without members
NoExc == "none"
None == -1                      \* Python's None as the result of dict.get

DBs == {"db1", "db2"}
Filters == {NoDb, "db1"}
Windows == {<<0, 2>>, <<1, 3>>}         \* (from_date, to_date)
ShardWindows == {<<0, 2>>, <<1, 3>>}    \* (start_time, end_time)
ShardIds == {1, 2}

Digit == {"0", "1", "2", "3", "4", "5", "6", "7", "8", "9"}
Whitespace == {" ", "\t", "\n", "\r"}

(* Sample lines of `find ... -exec du -b {} \;` output *)
DuLines == {
    <<"2", " ", "/", "d", "/", "1">>,                       \* 2 /d/1
    <<"1", "0", "2", "4", "\t", "\t", "/", "2", "\r", "\n">>, \* 1024<tab><tab>/2
    <<"2", " ", "/", "1", "/", "x">>,                       \* 2 /1/x
    <<"d", "u", ":", " ", "/", "1">>,                       \* du: /1 (no byte count)
    <<"7", "/", "2">> }                                     \* 7/2 (no whitespace)

----------------------------------------------------------------------------
(* Helpers *)

RECURSIVE SeqsUpTo(_, _)
SeqsUpTo(S, n) ==
    IF n = 0 THEN {<<>>}
    ELSE LET shorter == SeqsUpTo(S, n - 1)
         IN shorter \cup {Append(q, x) : q \in {r \in shorter : Len(r) = n - 1}, x \in S}

DigitValue(c) ==
    CASE c = "0" -> 0 [] c = "1" -> 1 [] c = "2" -> 2 [] c = "3" -> 3 [] c = "4" -> 4
      [] c = "5" -> 5 [] c = "6" -> 6 [] c = "7" -> 7 [] c = "8" -> 8 [] c = "9" -> 9

(* int(): the value of a non-empty string of decimal digits *)
RECURSIVE int(_)
int(digits) ==
    IF digits = <<>> THEN 0
    ELSE 10 * int(SubSeq(digits, 1, Len(digits) - 1)) + DigitValue(digits[Len(digits)])

(* Length of the longest run of characters of class C that starts at position p *)
RECURSIVE RunLen(_, _, _)
RunLen(line, p, C) ==
    IF p > Len(line) \/ line[p] \notin C THEN 0 ELSE 1 + RunLen(line, p + 1, C)

Max(S) == CHOOSE m \in S : \A k \in S : k <= m

----------------------------------------------------------------------------
(* _parse_du, lines 97-108 *)

(* re.match(r"([0-9]+)\s+.*/([0-9]+)", line): <<group 1, group 2>>, or <<>>   *)
(* when the line does not match (re.match returns None).  The match is       *)
(* anchored at the start of the line only; \s+ and .* are greedy and         *)
(* backtrack, "." matches anything but a newline.                            *)
Match(line) ==
    LET n1 == RunLen(line, 1, Digit)
        nws == RunLen(line, n1 + 1, Whitespace)
        Slash(k) == {j \in (k + 1)..(Len(line) - 1) :
                        /\ line[j] = "/"
                        /\ line[j + 1] \in Digit
                        /\ \A p \in (k + 1)..(j - 1) : line[p] # "\n"}
        ks == {k \in (n1 + 1)..(n1 + nws) : Slash(k) # {}}
    IN  IF n1 = 0 \/ nws = 0 \/ ks = {} THEN <<>>
        ELSE LET j == Max(Slash(Max(ks)))
             IN <<SubSeq(line, 1, n1),
                  SubSeq(line, j + 1, j + RunLen(line, j + 1, Digit))>>

(* r.group(..) on None raises AttributeError *)
ParseRaises(line) == Match(line) = <<>>

(* The pair (shard id, bytes) _parse_du returns for a line that matches *)
_parse_du(line) == <<int(Match(line)[2]), int(Match(line)[1])>>

(* _get_shard_size, lines 142-147: dict.get, None for an absent key *)
_get_shard_size(shard_id) ==
    IF shard_id \in DOMAIN shards_size_list THEN shards_size_list[shard_id] ELSE None

(* _size, lines 149-156.  The result is the printed text: "0B", or a value    *)
(* (in hundredths, round(size_bytes / 1024^i, 2)) followed by a unit.         *)
size_name == <<"B", "KB", "MB", "GB", "TB", "PB", "EB", "ZB", "YB">>

RECURSIVE Log1024(_)
Log1024(n) == IF n < 1024 THEN 0 ELSE 1 + Log1024(n \div 1024)

RECURSIVE Pow1024(_)
Pow1024(i) == IF i = 0 THEN 1 ELSE 1024 * Pow1024(i - 1)

_size(size_bytes) ==
    IF size_bytes = 0 THEN [literal |-> "0B", hundredths |-> 0, unit |-> ""]
    ELSE LET i == Log1024(size_bytes)
             p == Pow1024(i)
         IN [literal |-> "",
             hundredths |-> (200 * size_bytes + p) \div (2 * p),
             unit |-> size_name[i + 1]]

(* The two print statements, lines 218 and 222 *)
DbLine(bytes, db) == [kind |-> "db", bytes |-> bytes, text |-> _size(bytes), database |-> db]
TotalLine(bytes) == [kind |-> "total", bytes |-> bytes, text |-> _size(bytes), database |-> ""]

----------------------------------------------------------------------------
(* Shard records and groups as SHOW SHARDS returns them *)

ShardRecords(db) ==
    {[id |-> i, database |-> db, start_time |-> w[1], end_time |-> w[2]] :
        i \in ShardIds, w \in ShardWindows}

(* A group holds the shards of one database; it may have no members *)
Groups == UNION {SeqsUpTo(ShardRecords(db), MaxGroupLen) : db \in DBs}

(* What the inner loop is to add up for a group g: the bytes of the records *)
(* of g that lie inside [from_date, to_date] and are in the size index.     *)
(* It is noted in seen when the group is returned.                          *)
RECURSIVE QualifyingBytes(_)
QualifyingBytes(g) ==
    IF g = <<>> THEN 0
    ELSE LET s == Head(g)
         IN (IF /\ s.start_time >= from_date
                /\ s.end_time <= to_date
                /\ s.id \in DOMAIN shards_size_list
             THEN shards_size_list[s.id] ELSE 0) + QualifyingBytes(Tail(g))

GroupName(g) == IF g = <<>> THEN NoName ELSE g[1].database

----------------------------------------------------------------------------
Init ==
    /\ pc = "connect"
    /\ exc = NoExc
    /\ influx_db \in Filters
    /\ full \in BOOLEAN
    /\ \E w \in Windows : from_date = w[1] /\ to_date = w[2]
    /\ ssh = "none"
    /\ n_connect = 0
    /\ n_exec = 0
    /\ stdout = <<>>
    /\ shards_size_list = <<>>
    /\ query = "none"
    /\ seen = <<>>
    /\ group = <<>>
    /\ si = 1
    /\ database = Unbound
    /\ shard_size = 0
    /\ total_size = 0
    /\ out = <<>>

args == <<influx_db, full, from_date, to_date>>

(* A faulty variant of Connect: the failure is logged and the run goes on *)
ConnectContinues ==
    /\ pc = "connect"
    /\ n_connect' = n_connect + 1
    /\ \E result \in {"ok", "AuthenticationException", "Exception"} :
          ssh' = IF result = "ok" THEN "open" ELSE "failed"
    /\ pc' = "exec"
    /\ UNCHANGED <<influx_db, full, from_date, to_date, exc, n_exec, stdout,
                   shards_size_list, query, seen, group, si, database, shard_size,
                   total_size, out>>

(* lines 115-125: connect, or log the error and sys.exit(1) *)
Connect ==
    /\ pc = "connect"
    /\ n_connect' = n_connect + 1
    /\ \E result \in {"ok", "AuthenticationException", "Exception"} :
          IF result = "ok"
          THEN ssh' = "open" /\ pc' = "exec" /\ exc' = exc
          ELSE ssh' = "failed" /\ pc' = "exited" /\ exc' = "SystemExit"
    /\ UNCHANGED <<args, n_exec, stdout, shards_size_list, query, seen, group, si,
                   database, shard_size, total_size, out>>

(* lines 127-131: exec_command, stdout.readlines() *)
ExecCommand ==
    /\ pc = "exec"
    /\ n_exec' = n_exec + 1
    /\ stdout' \in SeqsUpTo(DuLines, MaxLines)
    /\ pc' = "stdout"
    /\ UNCHANGED <<args, exc, ssh, n_connect, shards_size_list, query, seen, group, si,
                   database, shard_size, total_size, out>>

(* lines 131-134: one iteration of the loop over the stdout lines *)
ParseLine ==
    /\ pc = "stdout"
    /\ stdout # <<>>
    /\ LET line == Head(stdout)
       IN IF ParseRaises(line)
          THEN /\ pc' = "crashed"
               /\ exc' = "AttributeError"
               /\ UNCHANGED <<stdout, shards_size_list>>
          ELSE LET shard_id == _parse_du(line)[1]
                   size_bytes == _parse_du(line)[2]
               IN /\ shards_size_list' =
                        [k \in DOMAIN shards_size_list \cup {shard_id} |->
                            IF k = shard_id THEN size_bytes ELSE shards_size_list[k]]
                  /\ stdout' = Tail(stdout)
                  /\ UNCHANGED <<pc, exc>>
    /\ UNCHANGED <<args, ssh, n_connect, n_exec, query, seen, group, si,
                   database, shard_size, total_size, out>>

(* lines 136-139: the stdout loop is over; stderr is logged and the method    *)
(* returns.  Nothing closes the session.                                      *)
DrainStderr ==
    /\ pc = "stdout"
    /\ stdout = <<>>
    /\ pc' = "query"
    /\ UNCHANGED <<args, exc, ssh, n_connect, n_exec, stdout, shards_size_list, query,
                   seen, group, si, database, shard_size, total_size, out>>

(* lines 183-184: the SHOW SHARDS query; an exception of the client is not caught *)
Query ==
    /\ pc = "query"
    /\ \E ok \in BOOLEAN :
          IF ok
          THEN query' = "ok" /\ pc' = "groups" /\ exc' = exc
          ELSE query' = "failed" /\ pc' = "crashed" /\ exc' = "QueryError"
    /\ total_size' = 0
    /\ UNCHANGED <<args, ssh, n_connect, n_exec, stdout, shards_size_list,
                   seen, group, si, database, shard_size, out>>

----------------------------------------------------------------------------
(* The aggregation loop of shards(), lines 187-222 *)

(* Faulty variants of the definitions below, one plausible slip each *)
FilterSkipsNever(db) == FALSE
InWindowStrict(s) == s.start_time > from_date /\ s.end_time < to_date
AddSizeUnguarded(acc, size) == acc + size
AccumulateLast(total, size) == size
PrintsTotalAlways == TRUE

(* line 195: the group belongs to another database than the one asked for *)
FilterSkips(db) == influx_db # NoDb /\ db # influx_db

(* lines 207-210: neither `continue` is taken *)
InWindow(s) == ~(s.start_time < from_date) /\ ~(s.end_time > to_date)

(* lines 212-215: shard_size += size; adding None raises TypeError, which the *)
(* except clause swallows, leaving shard_size as it was                      *)
AddSize(acc, size) == IF size = None THEN acc ELSE acc + size

(* line 217 *)
ShowsLine == full \/ influx_db # NoDb

(* line 219 *)
Accumulate(total, size) == total + size

(* line 221 *)
PrintsTotal == influx_db = NoDb

(* lines 187-199: the result set yields its next group; database is taken   *)
(* from the first member (an IndexError is swallowed and database keeps the *)
(* value it had, if any), the filter is applied and shard_size is reset.    *)
GroupHead ==
    /\ pc = "groups"
    /\ Len(seen) < MaxGroups
    /\ \E g \in Groups :
          LET db == IF g = <<>> THEN database ELSE g[1].database
          IN /\ group' = IF FilterSkips(db) THEN <<>> ELSE g
             /\ seen' = Append(seen, [database |-> GroupName(g),
                                      bytes |-> QualifyingBytes(g)])
             /\ database' = db
             /\ si' = 1
             /\ IF influx_db # NoDb /\ db = Unbound
                THEN pc' = "crashed" /\ exc' = "UnboundLocalError" /\ UNCHANGED shard_size
                ELSE IF FilterSkips(db)
                THEN UNCHANGED <<pc, exc, shard_size>>
                ELSE pc' = "shard" /\ shard_size' = 0 /\ UNCHANGED exc
    /\ UNCHANGED <<args, ssh, n_connect, n_exec, stdout, shards_size_list, query,
                   total_size, out>>

(* lines 201-215: one iteration of the loop over the records of the group *)
ShardStep ==
    /\ pc = "shard"
    /\ si <= Len(group)
    /\ LET s == group[si]
       IN shard_size' = IF InWindow(s)
                        THEN AddSize(shard_size, _get_shard_size(s.id))
                        ELSE shard_size
    /\ si' = si + 1
    /\ UNCHANGED <<args, pc, exc, ssh, n_connect, n_exec, stdout, shards_size_list, query,
                   seen, group, database, total_size, out>>

(* lines 217-219: after the last record of the group.  group is read no     *)
(* more until the outer loop assigns it again; the model forgets it.        *)
GroupTail ==
    /\ pc = "shard"
    /\ si > Len(group)
    /\ IF ShowsLine /\ database = Unbound
       THEN pc' = "crashed" /\ exc' = "UnboundLocalError" /\ UNCHANGED <<out, total_size>>
       ELSE /\ out' = IF ShowsLine THEN Append(out, DbLine(shard_size, database)) ELSE out
            /\ total_size' = Accumulate(total_size, shard_size)
            /\ pc' = "groups"
            /\ UNCHANGED exc
    /\ group' = <<>>
    /\ si' = 1
    /\ UNCHANGED <<args, ssh, n_connect, n_exec, stdout, shards_size_list, query,
                   seen, database, shard_size>>

(* lines 221-222: the result set is exhausted *)
Finish ==
    /\ pc = "groups"
    /\ out' = IF PrintsTotal THEN Append(out, TotalLine(total_size)) ELSE out
    /\ pc' = "done"
    /\ UNCHANGED <<args, exc, ssh, n_connect, n_exec, stdout, shards_size_list, query,
                   seen, group, si, database, shard_size, total_size>>

Next ==
    \/ Connect
    \/ ExecCommand
    \/ ParseLine
    \/ DrainStderr
    \/ Query
    \/ GroupHead
    \/ ShardStep
    \/ GroupTail
    \/ Finish

Spec == Init /\ [][Next]_vars

----------------------------------------------------------------------------
(* Properties *)

RECURSIVE SumBytes(_)
SumBytes(q) == IF q = <<>> THEN 0 ELSE Head(q).bytes + SumBytes(Tail(q))

IsDbLine(l) == l.kind = "db"
IsTotalLine(l) == l.kind = "total"
DbLinesOf(q) == SelectSeq(q, IsDbLine)
LastSeen == seen[Len(seen)]
Ended == pc \in {"done", "crashed", "exited"}

(* C1: while a group is processed, shard_size is the sum of the sizes of     *)
(* exactly those records gone through so far whose start_time >= from_date  *)
(* and end_time <= to_date, each counted once.                               *)
C1_WindowFilter ==
    pc = "shard" => shard_size = QualifyingBytes(SubSeq(group, 1, si - 1))

(* A group is done in which a record whose window equals [from_date, to_date] *)
(* was counted and a record reaching outside the window was not.              *)
C1_Witness ==
    /\ pc = "shard"
    /\ si > Len(group)
    /\ \E i, j \in 1..Len(group) :
          /\ group[i].start_time = from_date
          /\ group[i].end_time = to_date
          /\ group[i].id \in DOMAIN shards_size_list
          /\ (group[j].start_time < from_date \/ group[j].end_time > to_date)
          /\ group[j].id \in DOMAIN shards_size_list
          /\ shards_size_list[group[j].id] > 0
          /\ shard_size = shards_size_list[group[i].id]
          /\ shard_size > 0

(* The shape of a line of du output: a byte count, white space, a path whose *)
(* last segment is a shard id.                                               *)
WellFormed(line) ==
    LET n1 == RunLen(line, 1, Digit)
        nws == RunLen(line, n1 + 1, Whitespace)
    IN /\ n1 >= 1
       /\ nws >= 1
       /\ \E j \in (n1 + nws + 1)..(Len(line) - 1) :
             /\ line[j] = "/"
             /\ RunLen(line, j + 1, Digit) >= 1
             /\ \A p \in (j + 1 + RunLen(line, j + 1, Digit))..Len(line) :
                    line[p] \in Whitespace

(* C2: a line of the remote output that is not of that shape is skipped: the *)
(* loop goes on with the next line and the size index is left as it was.     *)
C2_MalformedLineSkipped ==
    [][(pc = "stdout" /\ stdout # <<>> /\ ~WellFormed(Head(stdout)))
          => (pc' = "stdout" /\ stdout' = Tail(stdout)
              /\ shards_size_list' = shards_size_list)]_vars

(* C3: a group without members raises nothing and prints nothing, and leaves *)
(* the grand total as it was.                                                *)
C3_EmptyGroupSkipped ==
    [][/\ (pc = "groups" /\ Len(seen') > Len(seen) /\ LastSeen'.database = NoName)
            => (pc' # "crashed" /\ out' = out)
       /\ (pc = "shard" /\ group = <<>>)
            => (pc' = "groups" /\ out' = out /\ total_size' = total_size)]_vars

(* C4: a record inside the window adds its indexed size to shard_size, and 0 *)
(* when its id is not in the index; no exception ends the loop, which goes   *)
(* on with the next record.                                                  *)
C4_AbsentContributesZero ==
    [][(/\ pc = "shard"
        /\ si <= Len(group)
        /\ group[si].start_time >= from_date
        /\ group[si].end_time <= to_date)
          => (/\ pc' = "shard"
              /\ exc' = NoExc
              /\ si' = si + 1
              /\ shard_size' = shard_size +
                    (IF group[si].id \in DOMAIN shards_size_list
                     THEN shards_size_list[group[si].id] ELSE 0))]_vars

(* A record inside the window without an index entry went first, and the     *)
(* size of the record after it was added.                                    *)
C4_Witness ==
    /\ pc = "shard"
    /\ si = 3
    /\ Len(group) = 2
    /\ \A i \in 1..2 : group[i].start_time >= from_date /\ group[i].end_time <= to_date
    /\ group[1].id \notin DOMAIN shards_size_list
    /\ group[2].id \in DOMAIN shards_size_list
    /\ shard_size = shards_size_list[group[2].id]
    /\ shard_size > 0

LetThrough(g) == g.database # NoName /\ (influx_db = NoDb \/ g.database = influx_db)
ExpectedDbLines ==
    IF full \/ influx_db # NoDb
    THEN [i \in 1..Len(SelectSeq(seen, LetThrough)) |->
             <<SelectSeq(seen, LetThrough)[i].database, SelectSeq(seen, LetThrough)[i].bytes>>]
    ELSE <<>>

(* C6: between groups and at the end, the per-database lines printed are     *)
(* exactly those of the groups the filter let through, each with its group's *)
(* name and total, in the order the groups were returned, if --full or a     *)
(* filter is set, and none otherwise.                                        *)
C6_PerDatabaseLines ==
    pc \in {"groups", "done"} =>
        [i \in 1..Len(DbLinesOf(out)) |->
            <<DbLinesOf(out)[i].database, DbLinesOf(out)[i].bytes>>] = ExpectedDbLines

(* C7: no TOTAL line is printed before the run completes; a completed run    *)
(* has one, as its last line, exactly if no filter is set; its value is the  *)
(* sum of the bytes inside the window over all groups returned, and with no  *)
(* group returned the output is the single line "TOTAL: 0B".                 *)
C7_TotalLine ==
    LET totals == {i \in 1..Len(out) : out[i].kind = "total"}
    IN /\ pc # "done" => totals = {}
       /\ (pc = "done" /\ influx_db # NoDb) => totals = {}
       /\ (pc = "done" /\ influx_db = NoDb) =>
             /\ out # <<>>
             /\ totals = {Len(out)}
             /\ out[Len(out)].bytes = SumBytes(seen)
             /\ (out[Len(out)].bytes = 0 <=> out[Len(out)].text.literal = "0B")
             /\ seen = <<>> =>
                   out = <<[kind |-> "total", bytes |-> 0, database |-> "",
                            text |-> [literal |-> "0B", hundredths |-> 0, unit |-> ""]]>>

(* An unfiltered run without --full is over: two groups with bytes inside    *)
(* the window, and the TOTAL line is all there is.                           *)
C7_Witness ==
    /\ pc = "done"
    /\ influx_db = NoDb
    /\ ~full
    /\ Len(seen) = 2
    /\ seen[1].bytes > 0
    /\ seen[2].bytes > 0
    /\ Len(out) = 1
    /\ out[1].kind = "total"
    /\ out[1].bytes = seen[1].bytes + seen[2].bytes

(* C8 as stated: without a filter, the per-database lines printed sum up to  *)
(* the grand total.                                                          *)
C8_EmittedSumIsTotal ==
    (pc = "done" /\ influx_db = NoDb) => SumBytes(DbLinesOf(out)) = total_size

(* C8 amended: without a filter and with --full, the per-database lines      *)
(* printed sum up to the grand total.                                        *)
C8_EmittedSumIsTotalWhenFull ==
    (influx_db = NoDb /\ full) =>
        /\ SumBytes(DbLinesOf(out)) = total_size
        /\ pc = "done" => (out # <<>> /\ out[Len(out)].bytes = SumBytes(DbLinesOf(out)))

(* An unfiltered --full run is over that printed two per-database lines with *)
(* bytes.                                                                    *)
C8_Witness ==
    /\ pc = "done"
    /\ influx_db = NoDb
    /\ full
    /\ Len(out) = 3
    /\ out[1].kind = "db" /\ out[1].bytes > 0
    /\ out[2].kind = "db" /\ out[2].bytes > 0
    /\ out[3].bytes = out[1].bytes + out[2].bytes

(* C9: the session is opened at most once, the command is run at most once,  *)
(* and no run ends with the session open.                                    *)
C9_SessionClosed ==
    /\ n_connect <= 1
    /\ n_exec <= 1
    /\ Ended => ssh # "open"

(* C10: when the session could not be established nothing is printed and the *)
(* metadata query is not issued; when the metadata query failed nothing is   *)
(* printed.                                                                  *)
C10_FatalBeforeOutput ==
    /\ ssh = "failed" => (out = <<>> /\ query = "none" /\ n_exec = 0 /\ pc = "exited")
    /\ query = "failed" => (out = <<>> /\ pc = "crashed")

(* The sizes were collected and the metadata query then failed.              *)
C10_Witness ==
    /\ pc = "crashed"
    /\ query = "failed"
    /\ ssh = "open"
    /\ DOMAIN shards_size_list # {}
    /\ out = <<>>

====
